---- MODULE Spec2Model ----
(***************************************************************************)
(* Model of metagenomic_classifier.py: sample discovery (discover_samples) *)
(* and the per-sample classification loop of main(), with the temporary    *)
(* artifacts under /tmp and the appended abundance table.                  *)
(*                                                                         *)
(* Strings that the code takes apart (paths, taxon names) are sequences of *)
(* tokens, so that basename, split, replace, splitext and strip are        *)
(* computed rather than assumed.                                           *)
(***************************************************************************)
EXTENDS Naturals, Integers, Sequences, FiniteSets, TLC

VARIABLES
    disk,         \* the files under input_dir (glob, os.path.exists)
    use_bracken,  \* args.use_bracken
    samples,      \* the dict returned by discover_samples, in insertion order
    pc,           \* where main is: discover, loop, kraken, bracken, parse, done, crashed
    idx,          \* how many entries of samples.items() the for loop has taken
    first,        \* main's first
    success,      \* main's success
    errlog,       \* the sample ids of the "Failed to process" log records
    outfile,      \* output_csv: whether it exists, and its lines
    writes,       \* how many to_csv calls have written to output_csv
    tmp,          \* the artifacts that exist under /tmp
    kreport,      \* what the current sample's kraken2 report file holds
    breport       \* what the current sample's bracken output file holds

vars == <<disk, use_bracken, samples, pc, idx, first, success, errlog,
          outfile, writes, tmp, kreport, breport>>

\* Largest number of read files in the input directory.
MaxFiles == 3

----------------------------------------------------------------------------
\* Generic sequence helpers.

Range(s) == {s[i] : i \in DOMAIN s}

Contains(s, tok) == \E i \in DOMAIN s : s[i] = tok

\* All orderings of a finite set, as sequences without repetition.
Orderings(S) ==
    {s \in [1..Cardinality(S) -> S] : \A i, j \in DOMAIN s : s[i] = s[j] => i = j}

RECURSIVE Filter(_, _)
\* [x for x in s if x in keep]
Filter(s, keep) ==
    IF s = <<>> THEN <<>>
    ELSE IF Head(s) \in keep THEN <<Head(s)>> \o Filter(Tail(s), keep)
         ELSE Filter(Tail(s), keep)

----------------------------------------------------------------------------
\* Path and string functions of the Python library, on token sequences.

\* Index of the last "/" of a path, 0 when there is none.
LastSlash(p) ==
    IF \E i \in DOMAIN p : p[i] = "/"
    THEN CHOOSE i \in DOMAIN p : p[i] = "/" /\ \A j \in DOMAIN p : p[j] = "/" => j <= i
    ELSE 0

\* os.path.basename
Basename(p) == SubSeq(p, LastSlash(p) + 1, Len(p))

\* str.split(tok)[0]: the part before the first occurrence of tok.
SplitFirst(s, tok) ==
    IF Contains(s, tok)
    THEN LET i == CHOOSE i \in DOMAIN s : s[i] = tok /\ \A j \in DOMAIN s : s[j] = tok => i <= j
         IN  SubSeq(s, 1, i - 1)
    ELSE s

\* str.replace(a, b): every occurrence, anywhere in the string.
Replace(s, a, b) == [i \in DOMAIN s |-> IF s[i] = a THEN b ELSE s[i]]

\* Tokens that begin with a dot.
DotTokens == {".fastq", ".gz", ".txt"}

\* os.path.splitext(...)[0]: cut at the last dot that is not leading.
SplitextRoot(s) ==
    IF \E i \in DOMAIN s : i > 1 /\ s[i] \in DotTokens
    THEN LET i == CHOOSE i \in DOMAIN s :
                     /\ i > 1 /\ s[i] \in DotTokens
                     /\ \A j \in DOMAIN s : (j > 1 /\ s[j] \in DotTokens) => j <= i
         IN  SubSeq(s, 1, i - 1)
    ELSE s

RECURSIVE LStrip(_)
LStrip(s) == IF s # <<>> /\ Head(s) = " " THEN LStrip(Tail(s)) ELSE s

RECURSIVE RStrip(_)
RStrip(s) ==
    IF s # <<>> /\ s[Len(s)] = " " THEN RStrip(SubSeq(s, 1, Len(s) - 1)) ELSE s

\* str.strip
Strip(s) == RStrip(LStrip(s))

----------------------------------------------------------------------------
\* The read files the input directory may hold.

P_X1  == <<"in", "/", "X", "_R1", ".fastq">>
P_X2  == <<"in", "/", "X", "_R2", ".fastq">>
P_Xgz == <<"in", "/", "sub", "/", "X", ".fastq", ".gz">>
P_Y1  == <<"in", "/", "b", "_R1", "/", "Y", "_R1", ".fastq">>
P_Y2  == <<"in", "/", "b", "_R1", "/", "Y", "_R2", ".fastq">>
P_txt == <<"in", "/", "notes", ".txt">>

AllPaths == {P_X1, P_X2, P_Xgz, P_Y1, P_Y2, P_txt}

\* glob("**/*.fastq*"): the files whose base name contains ".fastq".
Glob(files) == {f \in files : Contains(Basename(f), ".fastq")}

----------------------------------------------------------------------------
\* A Python dict: a sequence of [id, paths] entries in insertion order.

HasKey(d, k) == \E i \in DOMAIN d : d[i].id = k

\* d[k] = v: an existing key keeps its position and loses its old value.
DictSet(d, k, v) ==
    IF HasKey(d, k)
    THEN [i \in DOMAIN d |-> IF d[i].id = k THEN [id |-> k, paths |-> v] ELSE d[i]]
    ELSE Append(d, [id |-> k, paths |-> v])

\* set(sum(samples.values(), []))
UsedFiles(d) == UNION {Range(d[i].paths) : i \in DOMAIN d}

----------------------------------------------------------------------------
\* discover_samples

\* The sample identifier of a read-1 file.
R1SampleId(r1) == SplitFirst(Basename(r1), "_R1")

\* The expected partner of a read-1 file.
R2Path(r1) == Replace(r1, "_R1", "_R2")

\* The sample identifier of an unpaired file.
UnpairedSampleId(f) == SplitextRoot(SplitextRoot(Basename(f)))

RECURSIVE PairedPass(_, _, _)
\* for r1 in r1_files: ...
PairedPass(r1s, d, onDisk) ==
    IF r1s = <<>> THEN d
    ELSE LET r1 == Head(r1s)
             r2 == R2Path(r1)
             v  == IF r2 \in onDisk THEN <<r1, r2>> ELSE <<r1>>
         IN  PairedPass(Tail(r1s), DictSet(d, R1SampleId(r1), v), onDisk)

RECURSIVE UnpairedPass(_, _)
\* for f in unpaired: ...
UnpairedPass(fs, d) ==
    IF fs = <<>> THEN d
    ELSE UnpairedPass(Tail(fs), DictSet(d, UnpairedSampleId(Head(fs)), <<Head(fs)>>))

\* fastq_files is the glob result in the order the file system gave it.
DiscoverSamples(fastq_files, onDisk) ==
    LET r1_files == Filter(fastq_files,
                           {f \in Range(fastq_files) : Contains(Basename(f), "_R1")})
        paired   == PairedPass(r1_files, <<>>, onDisk)
        unpaired == Filter(fastq_files, Range(fastq_files) \ UsedFiles(paired))
    IN  UnpairedPass(unpaired, paired)

----------------------------------------------------------------------------
\* Report files written by the external tools.  A file is missing, empty
\* (zero length), malformed (the reader rejects it) or ok with its rows.

Row(rank, name, reads) == [rank |-> rank, name |-> name, reads |-> reads]

Missing   == [state |-> "missing",   rows |-> <<>>]
Empty     == [state |-> "empty",     rows |-> <<>>]
Malformed == [state |-> "malformed", rows |-> <<>>]
Ok(rows)  == [state |-> "ok",        rows |-> rows]

\* Ecoli 10 and Bsubtilis 0 under their genus, names indented as the tool does.
RowsS1 == << Row("G", <<" ", "Escherichia">>, 10),
             Row("S", <<" ", " ", "Ecoli">>, 10),
             Row("S", <<" ", " ", "Bsubtilis">>, 0) >>

\* Ecoli 5 and Lactobacillus 3.
RowsS2 == << Row("S", <<"Ecoli">>, 5), Row("S", <<"Lactobacillus", " ">>, 3) >>

\* No species-level row at all.
RowsG  == << Row("G", <<"Escherichia">>, 4) >>

Reports == {RowsS1, RowsS2, RowsG}

\* What kraken2 may leave at the report path, by exit status.
KrakenOutcomes(exit) ==
    IF exit # 0 THEN {Missing, Empty}
    ELSE {Missing, Empty, Malformed} \cup {Ok(r) : r \in Reports}

\* What bracken may leave at its output path, by exit status.
BrackenOutcomes(exit) ==
    IF exit # 0 THEN {Missing, Empty}
    ELSE {Missing, Malformed} \cup {Ok(r) : r \in Reports}

----------------------------------------------------------------------------
\* Temporary artifacts: /tmp/<sample_id>.<kind>

ReportFile(id)  == <<id, "kraken2.report">>
OutputFile(id)  == <<id, "kraken2.out">>
BrackenFile(id) == <<id, "bracken">>

\* kreport and breport hold what the current sample's report files contain.
\* The files a tool run leaves behind, given what it wrote.
Created(file, content) == IF content.state = "missing" THEN {} ELSE {file}

\* A check that looks only for the file and not at its size.
EmptyReportMissingOnly(rep) == rep.state = "missing"

\* not os.path.exists(report) or os.path.getsize(report) == 0
EmptyReport(rep) == rep.state = "missing" \/ rep.state = "empty"

\* not os.path.exists(bracken_out)
NoBrackenOutput(rep) == rep.state = "missing"

----------------------------------------------------------------------------
\* parse_species_abundance

\* pandas.read_csv raises on an empty or malformed file.
ParseRaises(rep) == rep.state # "ok"

RECURSIVE SpeciesRows(_, _)
\* df[df["rank"] == "S"] for a kraken2 report; every row for a bracken report.
SpeciesRows(rows, bracken) ==
    IF rows = <<>> THEN <<>>
    ELSE IF bracken \/ Head(rows).rank = "S"
         THEN <<Head(rows)>> \o SpeciesRows(Tail(rows), bracken)
         ELSE SpeciesRows(Tail(rows), bracken)

\* The frame of (name, reads), names stripped.
ParseSpeciesAbundance(rep, bracken) ==
    LET kept == SpeciesRows(rep.rows, bracken)
    IN  [i \in DOMAIN kept |-> [name |-> Strip(kept[i].name), reads |-> kept[i].reads]]

----------------------------------------------------------------------------
\* The abundance table file: lines of text.  A header line lists the taxon
\* columns of the frame that wrote it (SampleID follows them); a data line
\* lists the counts (the sample identifier follows them) and remembers, in
\* names, the columns of the frame it came from.

HeaderLine(df) ==
    [kind |-> "header", names |-> [i \in DOMAIN df |-> df[i].name],
     vals |-> <<>>, sample |-> <<>>]

DataLine(df, id) ==
    [kind |-> "data", names |-> [i \in DOMAIN df |-> df[i].name],
     vals |-> [i \in DOMAIN df |-> df[i].reads], sample |-> id]

NoFile == [exists |-> FALSE, lines |-> <<>>]

\* The table an earlier run left in the output directory.
OldTable ==
    [exists |-> TRUE,
     lines  |-> << HeaderLine(<<[name |-> <<"Ecoli">>, reads |-> 7]>>),
                   DataLine(<<[name |-> <<"Ecoli">>, reads |-> 7]>>, <<"X">>) >>]

\* df_t.to_csv(output_csv, mode="a", index=False, header=first)
ToCsv(file, df, id, header) ==
    [exists |-> TRUE,
     lines  |-> file.lines \o (IF header THEN <<HeaderLine(df)>> ELSE <<>>)
                          \o <<DataLine(df, id)>>]

----------------------------------------------------------------------------
\* main

\* success += 1
CountSuccess(n) == n + 1

\* A handler that swallows the exception without a record.
LogFailureSilent(log, id) == log

\* logger.error(f"Failed to process {sample_id}: {e}")
LogFailure(log, id) == Append(log, id)

\* The sample of the current iteration.
Cur == samples[idx]

Init ==
    /\ disk \in {S \in SUBSET AllPaths : Cardinality(S) <= MaxFiles}
    /\ use_bracken \in BOOLEAN
    /\ outfile \in {NoFile, OldTable}
    /\ samples = <<>>
    /\ pc = "discover"
    /\ idx = 0
    /\ first = TRUE
    /\ success = 0
    /\ errlog = <<>>
    /\ writes = 0
    /\ tmp = {}
    /\ kreport = Missing
    /\ breport = Missing

\* discover_samples raises FileNotFoundError: the run ends before the loop.
DiscoverNone ==
    /\ pc = "discover"
    /\ Glob(disk) = {}
    /\ pc' = "crashed"
    /\ UNCHANGED <<disk, use_bracken, samples, idx, first, success, errlog,
                   outfile, writes, tmp, kreport, breport>>

\* samples = discover_samples(args.input_dir); first = True; success = 0
Discover ==
    /\ pc = "discover"
    /\ Glob(disk) # {}
    /\ \E fastq_files \in Orderings(Glob(disk)) :
           samples' = DiscoverSamples(fastq_files, disk)
    /\ pc' = "loop"
    /\ UNCHANGED <<disk, use_bracken, idx, first, success, errlog,
                   outfile, writes, tmp, kreport, breport>>

\* for sample_id, fastqs in samples.items(): the next iteration starts.
BeginSample ==
    /\ pc = "loop"
    /\ idx < Len(samples)
    /\ idx' = idx + 1
    /\ pc' = "kraken"
    /\ kreport' = Missing
    /\ breport' = Missing
    /\ UNCHANGED <<disk, use_bracken, samples, first, success, errlog,
                   outfile, writes, tmp>>

\* except Exception as e: the failure is logged and the loop goes on.
Except ==
    /\ errlog' = LogFailure(errlog, Cur.id)
    /\ pc' = "loop"
    /\ UNCHANGED <<disk, use_bracken, samples, idx, first, success, outfile, writes>>

\* run_kraken2, called from the loop body.
RunKraken2 ==
    /\ pc = "kraken"
    /\ \E exit \in {0, 1} : \E rep \in KrakenOutcomes(exit) :
         LET left == tmp \cup Created(ReportFile(Cur.id), rep)
                         \cup (IF exit = 0 \/ rep.state # "missing"
                               THEN {OutputFile(Cur.id)} ELSE {})
         IN  IF exit # 0 \/ EmptyReport(rep)
             THEN /\ tmp' = left
                  /\ kreport' = rep
                  /\ breport' = breport
                  /\ Except
             ELSE /\ tmp' = left \ {OutputFile(Cur.id)}
                  /\ kreport' = rep
                  /\ pc' = IF use_bracken THEN "bracken" ELSE "parse"
                  /\ UNCHANGED <<disk, use_bracken, samples, idx, first, success,
                                 errlog, outfile, writes, breport>>

\* run_bracken, called from the loop body when --use_bracken is given.
RunBracken ==
    /\ pc = "bracken"
    /\ \E exit \in {0, 1} : \E rep \in BrackenOutcomes(exit) :
         /\ tmp' = tmp \cup Created(BrackenFile(Cur.id), rep)
         /\ breport' = rep
         /\ kreport' = kreport
         /\ IF exit # 0 \/ NoBrackenOutput(rep)
            THEN Except
            ELSE /\ pc' = "parse"
                 /\ UNCHANGED <<disk, use_bracken, samples, idx, first, success,
                                errlog, outfile, writes>>

\* Parse, append the row to the table, count the success, remove the reports.
ParseAndAppend ==
    /\ pc = "parse"
    /\ LET report_to_use == IF use_bracken THEN breport ELSE kreport
           df == ParseSpeciesAbundance(report_to_use, use_bracken)
       IN  \E write_fails \in BOOLEAN :
             IF ParseRaises(report_to_use) \/ write_fails
             THEN /\ UNCHANGED <<tmp, kreport, breport>>
                  /\ Except
             ELSE /\ outfile' = ToCsv(outfile, df, Cur.id, first)
                  /\ writes' = writes + 1
                  /\ first' = FALSE
                  /\ success' = CountSuccess(success)
                  /\ tmp' = tmp \ ({ReportFile(Cur.id)} \cup
                                   (IF use_bracken THEN {BrackenFile(Cur.id)} ELSE {}))
                  /\ kreport' = Missing
                  /\ breport' = Missing
                  /\ pc' = "loop"
                  /\ UNCHANGED <<disk, use_bracken, samples, idx, errlog>>

\* logger.info(f"Completed. {success}/{len(samples)} samples succeeded. ...")
Finish ==
    /\ pc = "loop"
    /\ idx = Len(samples)
    /\ pc' = "done"
    /\ UNCHANGED <<disk, use_bracken, samples, idx, first, success, errlog,
                   outfile, writes, tmp, kreport, breport>>

Next ==
    \/ DiscoverNone
    \/ Discover
    \/ BeginSample
    \/ RunKraken2
    \/ RunBracken
    \/ ParseAndAppend
    \/ Finish

Spec == Init /\ [][Next]_vars

----------------------------------------------------------------------------
\* Vocabulary of the properties.

\* Samples whose iteration has ended.
Completed == IF pc \in {"kraken", "bracken", "parse"} THEN idx - 1 ELSE idx

Discovered == pc \notin {"discover", "crashed"}

DataIdx == {i \in DOMAIN outfile.lines : outfile.lines[i].kind = "data"}

HeaderIdx == {i \in DOMAIN outfile.lines : outfile.lines[i].kind = "header"}

\* The data lines this run appended: the last `writes` data lines of the file.
RunDataIdx == {i \in DataIdx : Cardinality({j \in DataIdx : j >= i}) <= writes}

RunRows == {outfile.lines[i] : i \in RunDataIdx}

\* The line just above the first data line of this run.
RunHeaderPos == (CHOOSE i \in RunDataIdx : \A j \in RunDataIdx : i <= j) - 1

\* The count a row's frame holds for a taxon, 0 when it does not have it.
CountOf(r, taxon) ==
    IF \E j \in DOMAIN r.names : r.names[j] = taxon
    THEN r.vals[CHOOSE j \in DOMAIN r.names : r.names[j] = taxon]
    ELSE 0

Injective(s) == \A i, j \in DOMAIN s : s[i] = s[j] => i = j

\* The directory part of a path, with its trailing "/".
Dirname(p) == SubSeq(p, 1, LastSlash(p))

\* A read-1 file named <x>_R1.fastq, and the read-2 file next to it.
IsPlainR1(f) ==
    LET b == Basename(f) IN Len(b) = 3 /\ b[2] = "_R1" /\ b[3] = ".fastq" /\ b[1] # "_R1"

Partner(f) == Dirname(f) \o Replace(Basename(f), "_R1", "_R2")

\* No read file other than f and its partner has a base name starting as f's.
NameIsOwn(f) ==
    \A g \in Glob(disk) \ {f, Partner(f)} : Basename(g)[1] # Basename(f)[1]

\* The entries of the discovered mapping with a given identifier.
Entries(id) == {i \in DOMAIN samples : samples[i].id = id}

----------------------------------------------------------------------------
\* C1 (stated as claimed; the code violates it).  At the end of a run that
\* wrote rows, the table's header has a column for every taxon of every row
\* the run wrote, and every such row has, under every column, its count for
\* that taxon or 0.
ColumnAlignment ==
    (pc = "done" /\ writes >= 1) =>
        /\ RunHeaderPos >= 1
        /\ outfile.lines[RunHeaderPos].kind = "header"
        /\ LET cols == outfile.lines[RunHeaderPos].names
           IN  /\ Injective(cols)
               /\ UNION {Range(r.names) : r \in RunRows} \subseteq Range(cols)
               /\ \A r \in RunRows :
                      /\ Len(r.vals) = Len(cols)
                      /\ \A i \in DOMAIN cols : r.vals[i] = CountOf(r, cols[i])

\* C2 (stated as claimed; the code violates it).  The table file is written
\* only when no discovered sample is still unattempted or running, and it is
\* written exactly once in a run that ends.
WriteOnce ==
    /\ writes > 0 => (Completed = Len(samples) /\ idx = Len(samples))
    /\ writes <= 1
    /\ pc = "done" => writes = 1

\* C3 (stated as claimed; the code violates it).  A run ends only after every
\* sample was attempted, and when exactly one of the N samples failed it
\* counts N-1 successes and the table holds exactly N-1 data rows, none of
\* them for the failed sample.
FailureIsolation ==
    pc = "done" =>
        /\ idx = Len(samples)
        /\ Len(errlog) = 1 =>
              /\ success = Len(samples) - 1
              /\ Cardinality(DataIdx) = Len(samples) - 1
              /\ \A i \in DataIdx : outfile.lines[i].sample # errlog[1]

\* C4 (stated as claimed; the code violates it).  Between two samples and at
\* the end of the run no temporary artifact exists.
ArtifactCleanup == pc \in {"loop", "done"} => tmp = {}

EmptyReportFails ==
    [][ (pc = "kraken" /\ pc' # "kraken" /\ kreport'.state \in {"missing", "empty"})
          => /\ errlog' = Append(errlog, samples[idx].id)
             /\ success' = success
             /\ outfile' = outfile
             /\ writes' = writes
             /\ pc' = "loop"
             /\ idx' = idx /\ samples' = samples ]_vars

\* A run in which a sample succeeded and a later one, whose classifier exit
\* status was taken as success, left a zero-length report and was failed.
EmptyReportWitness ==
    /\ pc = "done"
    /\ kreport.state = "empty"
    /\ success >= 1
    /\ errlog = <<samples[Len(samples)].id>>

\* C7 (stated as claimed; the code violates it).  A run in which every one of
\* the discovered samples failed ends with a table file that exists and has
\* no data row.
AllFailRun ==
    (pc = "done" /\ Len(samples) >= 1 /\ success = 0) =>
        /\ outfile.exists
        /\ DataIdx = {}

\* C8 (stated as claimed; the code violates it).  Discovery that returns a
\* mapping has dropped no enumerated read file: two files deriving the same
\* identifier are an error, never an overwrite.
NoSilentOverwrite ==
    Discovered => \A f \in Glob(disk) : f \in UsedFiles(samples)

\* C9 (stated as claimed; the code violates it).  For every X_R1.fastq with
\* X_R2.fastq beside it, sample X is [read 1, read 2] and read 2 is no sample
\* of its own; for every X_R1.fastq without X_R2.fastq beside it, sample X is
\* [read 1].  Only an X that names no other read file is looked at, so that
\* a shared identifier (C8) is not what fails here.
PairingCorrectness ==
    Discovered =>
        \A r1 \in {f \in Glob(disk) : IsPlainR1(f) /\ NameIsOwn(f)} :
            LET x == Basename(r1)[1]
            IN  IF Partner(r1) \in disk
                THEN /\ \E i \in Entries(<<x>>) : samples[i].paths = <<r1, Partner(r1)>>
                     /\ \A i \in DOMAIN samples : samples[i].paths # <<Partner(r1)>>
                ELSE \E i \in Entries(<<x>>) : samples[i].paths = <<r1>>

\* C10 (stated as claimed; the code violates it).  At the end of a run with a
\* success the file has exactly one header line, the first line, and as many
\* data lines as samples succeeded.
SingleHeader ==
    (pc = "done" /\ success >= 1) =>
        /\ HeaderIdx = {1}
        /\ Cardinality(DataIdx) = success

====
